---- MODULE Spec2Model ----
(***************************************************************************)
(* A* maze visualizer (src/A_star.py): the recursive-backtracker maze      *)
(* generator, the A* step generator _astar_steps, the path reconstructor   *)
(* and the animation driver: the button handlers and the timer callback    *)
(* _animate_step that pulls and applies the steps.                         *)
(***************************************************************************)
EXTENDS Integers, Sequences, FiniteSets, TLC

VARIABLES
    rows, cols,      \* arguments of generate_maze / dimensions of the grid
    phase,           \* "call" | "carving" | "maze" | "ValueError" | "search"
    grid,            \* grid[<<r, c>>]: wall bit mask of the cell
    visited,         \* generate_maze: visited[<<r, c>>]
    stack,           \* generate_maze: the DFS stack of cells
    start, end,      \* the arguments start and end of _astar_steps
    start_i, end_i,  \* _astar_steps: flattened start and end index
    g, prev,         \* _astar_steps: cost and predecessor arrays
    open_heap,       \* _astar_steps: set of <<f, counter, i>> heap entries
    counter,         \* _astar_steps: insertion sequence number
    in_open, closed, \* _astar_steps: bytearrays
    expansions,      \* _astar_steps: expansion counter
    cur,             \* _astar_steps: the loop variable i
    open_add,        \* _astar_steps: the list _open_add of the iteration
    gen_pc,          \* where the generator is suspended
    events,          \* the actions the driver has applied, in order
    final_state,     \* driver: self._final_state
    running,         \* driver: self._running
    path,            \* driver: the path reconstructed on completion
    paused,          \* driver: self._paused
    pending,         \* Tk: number of scheduled _animate_step callbacks
    frame,           \* _animate_step: iterations left of the loop of line 292
    busy             \* Tk event loop: "idle", or the handler being run

searchVars == <<start, end, start_i, end_i, g, prev, open_heap, counter, in_open, closed,
                expansions, cur, open_add>>
mazeVars == <<rows, cols, grid, visited, stack>>
vars == <<rows, cols, phase, grid, visited, stack, start, end, start_i, end_i,
          g, prev,
          open_heap, counter, in_open, closed, expansions, cur, open_add,
          gen_pc, events, final_state, running, path,
          paused, pending, frame, busy>>
uiVars == <<paused, pending, frame, busy>>

(***************************************************************************)
(* Bounds of the model.                                                    *)
(***************************************************************************)
\* generated mazes have at most MaxCells cells
MaxCells == 9
\* arbitrary (possibly cyclic or disconnected) grids are enumerated
\* exhaustively up to MaxAnyCells cells
MaxAnyCells == 6
\* _animate_step pulls at most MaxSteps actions in one frame
MaxSteps == 2
\* a click that would add a callback is taken only while fewer than
\* MaxPending callbacks are scheduled
MaxPending == 2

(***************************************************************************)
(* Program constants.                                                      *)
(***************************************************************************)
N == 1
S == 2
E == 4
W == 8
INF == 1000000000
NONE == -1

DIRS(d) ==
    CASE d = N -> <<-1, 0>>
      [] d = S -> <<1, 0>>
      [] d = E -> <<0, 1>>
      [] d = W -> <<0, -1>>

OPPOSITE(d) ==
    CASE d = N -> S
      [] d = S -> N
      [] d = E -> W
      [] d = W -> E

\* cell & d
HasBit(m, d) == (m \div d) % 2 = 1
\* cell & ~d
ClearBit(m, d) == IF HasBit(m, d) THEN m - d ELSE m

FullMask == N + S + E + W

Cells(rs, cs) == (0 .. rs - 1) \X (0 .. cs - 1)

total == rows * cols

(***************************************************************************)
(* generate_maze (lines 46-76).                                            *)
(***************************************************************************)
\* the grid and visited table of lines 54-55
FreshGrid(rs, cs) == [rc \in Cells(rs, cs) |-> FullMask]
FreshVisited(rs, cs) == [rc \in Cells(rs, cs) |-> FALSE]

\* GenerateEnter with the check of line 51 reduced to rows <= 0
GenerateEnterRowsOnly ==
    /\ phase = "call"
    /\ IF rows <= 0
       THEN /\ phase' = "ValueError"
            /\ UNCHANGED <<grid, visited, stack>>
       ELSE /\ phase' = "carving"
            /\ grid' = FreshGrid(rows, cols)
            /\ visited' = [FreshVisited(rows, cols) EXCEPT ![<<0, 0>>] = TRUE]
            /\ stack' = << <<0, 0>> >>
    /\ UNCHANGED <<rows, cols, searchVars, uiVars, gen_pc, events, final_state,
                   running, path>>

\* lines 51-58: argument check, then the tables and the stack are created
GenerateEnter ==
    /\ phase = "call"
    /\ IF rows <= 0 \/ cols <= 0
       THEN /\ phase' = "ValueError"
            /\ UNCHANGED <<grid, visited, stack>>
       ELSE /\ phase' = "carving"
            /\ grid' = FreshGrid(rows, cols)
            /\ visited' = [FreshVisited(rows, cols) EXCEPT ![<<0, 0>>] = TRUE]
            /\ stack' = << <<0, 0>> >>
    /\ UNCHANGED <<rows, cols, searchVars, uiVars, gen_pc, events, final_state,
                   running, path>>

\* Candidates without the visited test of line 65
CandidatesNoVisited(r, c) ==
    {d \in {N, S, E, W} :
        LET nr == r + DIRS(d)[1]
            nc == c + DIRS(d)[2]
        IN  0 <= nr /\ nr < rows /\ 0 <= nc /\ nc < cols}

\* lines 62-66: the directions towards in-bounds unvisited cells
Candidates(r, c) ==
    {d \in {N, S, E, W} :
        LET nr == r + DIRS(d)[1]
            nc == c + DIRS(d)[2]
        IN  /\ 0 <= nr /\ nr < rows /\ 0 <= nc /\ nc < cols
            /\ ~visited[<<nr, nc>>]}

\* CarveWall without line 69: only the neighbour's mask is cleared
CarveWallOneSided(gr, r, c, d) ==
    LET nr == r + DIRS(d)[1]
        nc == c + DIRS(d)[2]
    IN  [gr EXCEPT ![<<nr, nc>>] = ClearBit(gr[<<nr, nc>>], OPPOSITE(d))]

\* lines 69-70: the wall between (r, c) and its neighbour in direction d
\* is cleared in both masks
CarveWall(gr, r, c, d) ==
    LET nr == r + DIRS(d)[1]
        nc == c + DIRS(d)[2]
    IN  [gr EXCEPT ![<<r, c>>] = ClearBit(gr[<<r, c>>], d),
                   ![<<nr, nc>>] = ClearBit(gr[<<nr, nc>>], OPPOSITE(d))]

\* lines 60-72: one iteration that finds candidates; random.choice picks any
Carve ==
    /\ phase = "carving"
    /\ stack # <<>>
    /\ LET r == stack[Len(stack)][1]
           c == stack[Len(stack)][2]
       IN  /\ Candidates(r, c) # {}
           /\ \E d \in Candidates(r, c) :
                LET nr == r + DIRS(d)[1]
                    nc == c + DIRS(d)[2]
                IN  /\ grid' = CarveWall(grid, r, c, d)
                    /\ visited' = [visited EXCEPT ![<<nr, nc>>] = TRUE]
                    /\ stack' = Append(stack, <<nr, nc>>)
    /\ UNCHANGED <<rows, cols, phase, searchVars, uiVars, gen_pc, events,
                   final_state,
                   running, path>>

\* Backtrack without the pop of line 74
BacktrackNoPop ==
    /\ phase = "carving"
    /\ stack # <<>>
    /\ LET r == stack[Len(stack)][1]
           c == stack[Len(stack)][2]
       IN  Candidates(r, c) = {}
    /\ stack' = stack
    /\ phase' = IF Len(stack) = 1 THEN "maze" ELSE "carving"
    /\ UNCHANGED <<rows, cols, grid, visited, searchVars, uiVars, gen_pc, events,
                   final_state, running, path>>

\* lines 60-76: one iteration without candidates pops the stack; the loop
\* ends and the grid is returned when the stack is empty
Backtrack ==
    /\ phase = "carving"
    /\ stack # <<>>
    /\ LET r == stack[Len(stack)][1]
           c == stack[Len(stack)][2]
       IN  Candidates(r, c) = {}
    /\ stack' = SubSeq(stack, 1, Len(stack) - 1)
    /\ phase' = IF Len(stack) = 1 THEN "maze" ELSE "carving"
    /\ UNCHANGED <<rows, cols, grid, visited, searchVars, uiVars, gen_pc, events,
                   final_state, running, path>>

(***************************************************************************)
(* _neighbors (lines 79-89) and the open-edge graph of a grid.             *)
(***************************************************************************)
\* the cells _neighbors yields for (r, c), in the order east, west, south,
\* north
Neighbors(gr, rs, cs, r, c) ==
    LET cell == gr[<<r, c>>]
    IN  (IF c + 1 < cs /\ ~HasBit(cell, E) THEN << <<r, c + 1>> >> ELSE <<>>)
        \o (IF c - 1 >= 0 /\ ~HasBit(cell, W) THEN << <<r, c - 1>> >> ELSE <<>>)
        \o (IF r + 1 < rs /\ ~HasBit(cell, S) THEN << <<r + 1, c>> >> ELSE <<>>)
        \o (IF r - 1 >= 0 /\ ~HasBit(cell, N) THEN << <<r - 1, c>> >> ELSE <<>>)

SeqToSet(s) == {s[k] : k \in 1 .. Len(s)}

NeighborSet(gr, rs, cs, rc) == SeqToSet(Neighbors(gr, rs, cs, rc[1], rc[2]))

(***************************************************************************)
(* Python list/array indexing: a negative index counts from the end, an   *)
(* index outside -len .. len-1 raises IndexError.                          *)
(***************************************************************************)
InRange(i, n) == -n <= i /\ i < n
Wrap(i, n) == IF i < 0 THEN i + n ELSE i

\* array('i', [v] * n) and bytearray(n): indexed 0 .. n-1
Arr(n, v) == [k \in 0 .. n - 1 |-> v]
Size(a) == Cardinality(DOMAIN a)

Abs(x) == IF x < 0 THEN -x ELSE x

(***************************************************************************)
(* _astar_steps (lines 430-521).                                           *)
(***************************************************************************)
\* lines 434-435
idx(r, c) == r * cols + c

\* h_idx with the flat indices split by the number of rows
h_idxByRows(a, b) ==
    LET ar == a \div rows
        ac == a % rows
        br == b \div rows
        bc == b % rows
    IN  Abs(ar - br) + Abs(ac - bc)

\* lines 439-442 (divmod floors, as \div and % do)
h_idx(a, b) ==
    LET ar == a \div cols
        ac == a % cols
        br == b \div cols
        bc == b % cols
    IN  Abs(ar - br) + Abs(ac - bc)

\* TupleLess on entries pushed without the counter: (f, i)
TupleLessNoCounter(x, y) ==
    \/ x[1] < y[1]
    \/ x[1] = y[1] /\ x[3] < y[3]

\* tuple comparison of heap entries (f, counter, i)
TupleLess(x, y) ==
    \/ x[1] < y[1]
    \/ x[1] = y[1] /\ x[2] < y[2]
    \/ x[1] = y[1] /\ x[2] = y[2] /\ x[3] < y[3]

\* heapq.heappop: the smallest entry
HeapMin(heap) == CHOOSE x \in heap : \A y \in heap : y = x \/ TupleLess(x, y)

\* lines 459-462: pop until an entry whose cell is not closed, or until the
\* heap is empty
RECURSIVE PopLoop(_, _)
PopLoop(heap, cl) ==
    IF heap = {}
    THEN [found |-> FALSE, i |-> NONE, heap |-> heap]
    ELSE LET x == HeapMin(heap)
         IN  IF cl[Wrap(x[3], total)] = 1
             THEN PopLoop(heap \ {x}, cl)
             ELSE [found |-> TRUE, i |-> x[3], heap |-> heap \ {x}]

\* grid[r][c] for the r, c of divmod(i, cols)
CellOf(i) == grid[<<Wrap(i \div cols, rows), i % cols>>]

\* lines 491-498: the neighbour indices relax is called with, in order
RelaxTargets(i) ==
    LET r == i \div cols
        c == i % cols
        cell == CellOf(i)
    IN  (IF c + 1 < cols /\ ~HasBit(cell, E) THEN <<i + 1>> ELSE <<>>)
        \o (IF c - 1 >= 0 /\ ~HasBit(cell, W) THEN <<i - 1>> ELSE <<>>)
        \o (IF r + 1 < rows /\ ~HasBit(cell, S) THEN <<i + cols>> ELSE <<>>)
        \o (IF r - 1 >= 0 /\ ~HasBit(cell, N) THEN <<i - cols>> ELSE <<>>)

\* Exits without lines 513-514: the northern exit is not counted
ExitsNoNorth(i) ==
    Len(SelectSeq(RelaxTargets(i), LAMBDA n : n # i - cols))

\* lines 506-514
Exits(i) == Len(RelaxTargets(i))

\* relax with the step cost left out of line 478: tentative = g[i]
relaxNoStepCost(st, i, ni) ==
    IF st.err \/ ~InRange(ni, total)
    THEN [st EXCEPT !.err = TRUE]
    ELSE LET tentative == st.g[Wrap(i, total)]
             w == Wrap(ni, total)
         IN  IF tentative < st.g[w]
             THEN IF st.in_open[w] = 0
                  THEN [st EXCEPT
                          !.g[w] = tentative,
                          !.prev[w] = i,
                          !.counter = st.counter + 1,
                          !.heap = st.heap \cup
                              {<<tentative + h_idx(ni, end_i),
                                 st.counter + 1, ni>>},
                          !.in_open[w] = 1,
                          !.open_add = Append(st.open_add, ni)]
                  ELSE [st EXCEPT !.g[w] = tentative, !.prev[w] = i]
             ELSE st

\* lines 476-486: relax(ni) while expanding i, on the search state st
relax(st, i, ni) ==
    IF st.err \/ ~InRange(ni, total)
    THEN [st EXCEPT !.err = TRUE]
    ELSE LET tentative == st.g[Wrap(i, total)] + 1
             w == Wrap(ni, total)
         IN  IF tentative < st.g[w]
             THEN IF st.in_open[w] = 0
                  THEN [st EXCEPT
                          !.g[w] = tentative,
                          !.prev[w] = i,
                          !.counter = st.counter + 1,
                          !.heap = st.heap \cup
                              {<<tentative + h_idx(ni, end_i),
                                 st.counter + 1, ni>>},
                          !.in_open[w] = 1,
                          !.open_add = Append(st.open_add, ni)]
                  ELSE [st EXCEPT !.g[w] = tentative, !.prev[w] = i]
             ELSE st

\* lines 490-498: the calls of relax, one after the other (each
\* intermediate state s is bound as a value)
RECURSIVE RelaxAll(_, _, _)
RelaxAll(st, i, targets) ==
    IF targets = <<>>
    THEN st
    ELSE CHOOSE r \in {RelaxAll(s, i, Tail(targets)) :
                          s \in {relax(st, i, Head(targets))}} : TRUE

\* the goal test of line 465 skipped for the start cell
AtGoalNotStart(i) == i = end_i /\ i # start_i

\* line 465
AtGoal(i) == i = end_i

Event(kind, payload) == [kind |-> kind, payload |-> payload]

\* the finish payload with the insertion counter in place of expansions
FinishPayloadCounter == <<prev, cols, end_i, counter>>

\* lines 467 and 521: the payload of the finish event
FinishPayload == <<prev, cols, end_i, expansions>>

\* Classify with the junction threshold of line 515 lowered to 2
ClassifyAtTwo(i) ==
    IF Exits(i) >= 2 THEN Event("branch", <<i>>) ELSE Event("closed_add", <<i>>)

\* lines 515-518
Classify(i) ==
    IF Exits(i) >= 3 THEN Event("branch", <<i>>) ELSE Event("closed_add", <<i>>)

(***************************************************************************)
(* _reconstruct_path_idx (lines 92-99).                                    *)
(***************************************************************************)
\* lines 94-97: the loop, which reads prev[cur] (IndexError when cur is out
\* of range) until cur is -1; a walk longer than the table has entries
\* never ends
RECURSIVE WalkPrev(_, _, _, _)
WalkPrev(pv, c, acc, fuel) ==
    IF c = NONE THEN [status |-> "ok", idxs |-> acc]
    ELSE IF ~InRange(c, Size(pv)) THEN [status |-> "IndexError", idxs |-> acc]
    ELSE IF fuel = 0 THEN [status |-> "diverges", idxs |-> acc]
    ELSE WalkPrev(pv, pv[Wrap(c, Size(pv))], Append(acc, c), fuel - 1)

Reverse(s) == [k \in 1 .. Len(s) |-> s[Len(s) + 1 - k]]

\* _reconstruct_path_idx without the reverse of line 98
ReconstructNoReverse(pv, end_idx, cs) ==
    LET w == WalkPrev(pv, end_idx, <<>>, Size(pv))
    IN  [status |-> w.status,
         cells |-> [k \in 1 .. Len(w.idxs) |->
                      <<w.idxs[k] \div cs, w.idxs[k] % cs>>]]

\* lines 98-99: reversed, and converted to (row, col)
_reconstruct_path_idx(pv, end_idx, cs) ==
    LET w == WalkPrev(pv, end_idx, <<>>, Size(pv))
        rev == Reverse(w.idxs)
    IN  [status |-> w.status,
         cells |-> [k \in 1 .. Len(rev) |-> <<rev[k] \div cs, rev[k] % cs>>]]

NoPath == [status |-> "none", cells |-> <<>>]

(***************************************************************************)
(* on_solve (lines 227-242): the generator is created for a grid and two   *)
(* endpoints; nothing of its body runs before the first next().            *)
(***************************************************************************)
Construct(EP) ==
    /\ phase = "maze"
    /\ \E s \in EP, e \in EP :
         /\ start' = s
         /\ end' = e
    /\ phase' = "search"
    /\ gen_pc' = "created"
    /\ running' = TRUE
    /\ paused' = FALSE
    /\ UNCHANGED <<mazeVars, start_i, end_i, g, prev, open_heap, counter,
                   pending, frame, busy,
                   in_open, closed, expansions, cur, open_add, events,
                   final_state, path>>

\* the search is constructed with endpoints inside the grid
ConstructInBounds == Construct(Cells(rows, cols))

\* the search is constructed with endpoints up to one step outside the grid
ConstructAnywhere == Construct((-1 .. rows) \X (-1 .. cols))

\* _apply_action (lines 408-428) on the action the generator yielded
Apply(ev) ==
    /\ events' = Append(events, ev)
    /\ final_state' = IF ev.kind = "finish" THEN ev.payload ELSE final_state

(***************************************************************************)
(* _animate_step (lines 292-299): next(self._gen) runs the generator to    *)
(* its next yield, and the action is applied.                              *)
(***************************************************************************)

\* the loop of lines 292-299 after one next(): an iteration of the frame is
\* used up; an exception raised by the generator leaves _animate_step, and
\* with it the handler, without a new callback
StepOfFrame ==
    /\ frame' = IF gen_pc' = "raised" \/ frame = 0 THEN 0 ELSE frame - 1
    /\ busy' = IF gen_pc' = "raised" THEN "idle" ELSE busy
    /\ UNCHANGED <<paused, pending>>

\* first next(): lines 431-457
PullStart ==
    /\ running
    /\ gen_pc = "created"
    /\ LET si == idx(start[1], start[2])
           ei == idx(end[1], end[2])
       IN  /\ start_i' = si
           /\ end_i' = ei
           /\ prev' = IF InRange(si, total) THEN Arr(total, NONE) ELSE prev
           /\ IF InRange(si, total)
              THEN /\ g' = [Arr(total, INF) EXCEPT ![Wrap(si, total)] = 0]
                   /\ open_heap' = {<<h_idx(si, ei), 0, si>>}
                   /\ counter' = 0
                   /\ in_open' = [Arr(total, 0) EXCEPT ![Wrap(si, total)] = 1]
                   /\ closed' = Arr(total, 0)
                   /\ expansions' = 0
                   /\ gen_pc' = "y_open0"
                   /\ Apply(Event("open_add", <<si>>))
              ELSE \* g[start_i] = 0 raises IndexError (line 445)
                   /\ g' = Arr(total, INF)
                   /\ gen_pc' = "raised"
                   /\ UNCHANGED <<open_heap, counter, in_open, closed,
                                  expansions, events, final_state>>
    /\ UNCHANGED <<mazeVars, phase, start, end, cur, open_add, running, path>>
    /\ StepOfFrame

\* PopPoints without the return of line 468: the loop goes on after the
\* finish action of line 467
PopPointsNoReturn == {"y_open0", "y_closed", "y_finish_goal"}

\* the yields after which the generator resumes at the loop test of line
\* 459: lines 457, 516 and 518 (line 467 is followed by return)
PopPoints == {"y_open0", "y_closed"}

\* PullPop without line 521: the generator returns without a finish action
\* when the heap runs empty
PullPopNoFinish ==
    /\ running
    /\ gen_pc \in PopPoints
    /\ LET p == PopLoop(open_heap, closed)
       IN  /\ open_heap' = p.heap
           /\ IF p.found
              THEN /\ cur' = p.i
                   /\ gen_pc' = "y_current"
                   /\ Apply(Event("current", p.i))
              ELSE /\ cur' = cur
                   /\ gen_pc' = "returned"
                   /\ UNCHANGED <<events, final_state>>
    /\ UNCHANGED <<mazeVars, phase, start, end, start_i, end_i, g, prev,
                   counter, in_open, closed, expansions, open_add, running,
                   path>>
    /\ StepOfFrame

\* next() at the top of the loop: lines 459-463, or line 521 when the heap
\* runs empty
PullPop ==
    /\ running
    /\ gen_pc \in PopPoints
    /\ LET p == PopLoop(open_heap, closed)
       IN  /\ open_heap' = p.heap
           /\ IF p.found
              THEN /\ cur' = p.i
                   /\ gen_pc' = "y_current"
                   /\ Apply(Event("current", p.i))
              ELSE /\ cur' = cur
                   /\ gen_pc' = "y_finish_empty"
                   /\ Apply(Event("finish", FinishPayload))
    /\ UNCHANGED <<mazeVars, phase, start, end, start_i, end_i, g, prev,
                   counter, in_open, closed, expansions, open_add, running,
                   path>>
    /\ StepOfFrame

\* next() after the yield of line 463: the goal test of lines 465-467, or
\* the expansion of lines 470-501 and, when nothing was opened, 503-518
PullExpand ==
    /\ running
    /\ gen_pc = "y_current"
    /\ IF AtGoal(cur)
       THEN /\ gen_pc' = "y_finish_goal"
            /\ Apply(Event("finish", FinishPayload))
            /\ UNCHANGED <<g, prev, open_heap, counter, in_open, closed,
                           expansions, open_add>>
       ELSE LET cl == [closed EXCEPT ![Wrap(cur, total)] = 1]
                st0 == [g |-> g, prev |-> prev, heap |-> open_heap,
                        counter |-> counter, in_open |-> in_open,
                        open_add |-> <<>>, err |-> FALSE]
            IN  \E st \in {RelaxAll(st0, cur, RelaxTargets(cur))} :
                /\ closed' = cl
                /\ g' = st.g
                /\ prev' = st.prev
                /\ open_heap' = st.heap
                /\ counter' = st.counter
                /\ in_open' = st.in_open
                /\ open_add' = st.open_add
                /\ IF st.err
                   THEN /\ gen_pc' = "raised"
                        /\ UNCHANGED <<expansions, events, final_state>>
                   ELSE IF st.open_add # <<>>
                   THEN /\ gen_pc' = "y_open_add"
                        /\ expansions' = expansions
                        /\ Apply(Event("open_add", st.open_add))
                   ELSE /\ gen_pc' = "y_closed"
                        /\ expansions' = expansions + 1
                        /\ Apply(Classify(cur))
    /\ UNCHANGED <<mazeVars, phase, start, end, start_i, end_i, cur, running,
                   path>>
    /\ StepOfFrame

\* PullClassify with line 503 misplaced: an expansion that opened cells
\* is not counted
PullClassifyNoCount ==
    /\ running
    /\ gen_pc = "y_open_add"
    /\ expansions' = expansions
    /\ gen_pc' = "y_closed"
    /\ Apply(Classify(cur))
    /\ UNCHANGED <<mazeVars, phase, start, end, start_i, end_i, g, prev,
                   open_heap, counter, in_open, closed, cur, open_add,
                   running, path>>
    /\ StepOfFrame

\* next() after the yield of line 501: lines 503-518
PullClassify ==
    /\ running
    /\ gen_pc = "y_open_add"
    /\ expansions' = expansions + 1
    /\ gen_pc' = "y_closed"
    /\ Apply(Classify(cur))
    /\ UNCHANGED <<mazeVars, phase, start, end, start_i, end_i, g, prev,
                   open_heap, counter, in_open, closed, cur, open_add,
                   running, path>>
    /\ StepOfFrame

\* next() after the finish action: the generator returns, StopIteration is
\* caught (lines 296-298) and lines 300-312 complete the run
PullExhausted ==
    /\ running
    /\ gen_pc \in {"y_finish_goal", "y_finish_empty"}
    /\ gen_pc' = "returned"
    /\ path' = _reconstruct_path_idx(final_state[1], final_state[3],
                                     final_state[2])
    /\ running' = FALSE
    /\ UNCHANGED <<mazeVars, phase, searchVars, events, final_state>>
    /\ paused' = FALSE
    /\ frame' = 0
    /\ busy' = "idle"
    /\ UNCHANGED pending

Pull == PullStart \/ PullPop \/ PullExpand \/ PullClassify \/ PullExhausted

(***************************************************************************)
(* Specifications.                                                         *)
(***************************************************************************)
\* the dimensions generate_maze is called with, zero and negative included
Dims ==
    {rc \in (-1 .. MaxCells) \X (-1 .. MaxCells) : rc[1] * rc[2] <= MaxCells}

NoSearch ==
    /\ start = <<0, 0>>
    /\ end = <<0, 0>>
    /\ start_i = 0
    /\ end_i = 0
    /\ g = <<>>
    /\ prev = <<>>
    /\ open_heap = {}
    /\ counter = 0
    /\ in_open = <<>>
    /\ closed = <<>>
    /\ expansions = 0
    /\ cur = NONE
    /\ open_add = <<>>
    /\ gen_pc = "none"
    /\ events = <<>>
    /\ final_state = <<>>
    /\ running = FALSE
    /\ path = NoPath
    /\ paused = FALSE
    /\ pending = 0
    /\ frame = 0
    /\ busy = "idle"

\* generate_maze is called with some dimensions
Init ==
    /\ \E rc \in Dims : rows = rc[1] /\ cols = rc[2]
    /\ phase = "call"
    /\ grid = <<>>
    /\ visited = <<>>
    /\ stack = <<>>
    /\ NoSearch

Next ==
    \/ GenerateEnter
    \/ Carve
    \/ Backtrack
    \/ ConstructInBounds
    \/ PullStart
    \/ PullPop
    \/ PullExpand
    \/ PullClassify
    \/ PullExhausted

\* a maze is generated and searched between two of its cells
Spec == Init /\ [][Next]_vars

(***************************************************************************)
(* Searches over grids that generate_maze did not build: _astar_steps      *)
(* takes any grid of wall masks.                                           *)
(***************************************************************************)
\* the walls between two cells of the grid, named by a cell and E or S
InternalEdges(rs, cs) ==
    {e \in Cells(rs, cs) \X {E, S} :
        \/ e[2] = E /\ e[1][2] + 1 < cs
        \/ e[2] = S /\ e[1][1] + 1 < rs}

\* the grid in which exactly the walls of `open` are removed, in both masks
GridOf(rs, cs, open) ==
    [rc \in Cells(rs, cs) |->
        FullMask
        - (IF <<rc, E>> \in open THEN E ELSE 0)
        - (IF <<rc, S>> \in open THEN S ELSE 0)
        - (IF <<<<rc[1], rc[2] - 1>>, E>> \in open THEN W ELSE 0)
        - (IF <<<<rc[1] - 1, rc[2]>>, S>> \in open THEN N ELSE 0)]

AnyDims(maxCells) ==
    {rc \in (1 .. maxCells) \X (1 .. maxCells) : rc[1] * rc[2] <= maxCells}

\* a 3x6 grid with cycles and a walled-in cell, by rows
CyclicMasks ==
    << <<9, 1, 1, 3, 5, 15>>,
       <<12, 14, 10, 1, 0, 7>>,
       <<10, 3, 3, 2, 2, 7>> >>

CyclicGrid == [rc \in Cells(3, 6) |-> CyclicMasks[rc[1] + 1][rc[2] + 1]]

\* some grid is handed to the search: any grid of at most maxCells cells,
\* or the 3x6 grid
InitGrid(maxCells) ==
    /\ \/ \E rc \in AnyDims(maxCells) :
            /\ rows = rc[1]
            /\ cols = rc[2]
            /\ \E open \in SUBSET InternalEdges(rc[1], rc[2]) :
                 grid = GridOf(rc[1], rc[2], open)
       \/ /\ rows = 3
          /\ cols = 6
          /\ grid = CyclicGrid
    /\ phase = "maze"
    /\ visited = <<>>
    /\ stack = <<>>
    /\ NoSearch

InitAny == InitGrid(MaxAnyCells)

NextAny ==
    \/ ConstructInBounds
    \/ PullStart
    \/ PullPop
    \/ PullExpand
    \/ PullClassify
    \/ PullExhausted

\* any grid is searched between two of its cells
SpecAny == InitAny /\ [][NextAny]_vars

\* the driver keeps pulling: _animate_step reschedules itself (line 314)
\* until the generator is exhausted
FairAny == SpecAny /\ WF_vars(Pull)

NextOOB ==
    \/ GenerateEnter
    \/ Carve
    \/ Backtrack
    \/ ConstructAnywhere
    \/ PullStart
    \/ PullPop
    \/ PullExpand
    \/ PullClassify
    \/ PullExhausted

\* a maze is generated and searched between two coordinate pairs that may
\* lie outside it
SpecOOB == Init /\ [][NextOOB]_vars

\* the while loop of lines 60-74 is sequential code: an iteration that can
\* run does run
FairMaze == Spec /\ WF_vars(Carve) /\ WF_vars(Backtrack)

\* on_solve (lines 227-236): the search is constructed with the corners
\* generate_maze returned (line 76)
ConstructCorners ==
    /\ phase = "maze"
    /\ start' = <<0, 0>>
    /\ end' = <<rows - 1, cols - 1>>
    /\ phase' = "search"
    /\ gen_pc' = "created"
    /\ running' = TRUE
    /\ paused' = FALSE
    /\ UNCHANGED <<mazeVars, start_i, end_i, g, prev, open_heap, counter,
                   pending, frame, busy,
                   in_open, closed, expansions, cur, open_add, events,
                   final_state, path>>

\* generate_maze is called with the dimensions of Dims or for a 4x4 maze
InitCorner ==
    /\ \E rc \in Dims \cup {<<4, 4>>} : rows = rc[1] /\ cols = rc[2]
    /\ phase = "call"
    /\ grid = <<>>
    /\ visited = <<>>
    /\ stack = <<>>
    /\ NoSearch

NextCorner ==
    \/ GenerateEnter
    \/ Carve
    \/ Backtrack
    \/ ConstructCorners
    \/ PullStart
    \/ PullPop
    \/ PullExpand
    \/ PullClassify
    \/ PullExhausted

\* a maze is generated and searched from corner to corner, as on_solve does
SpecCorner == InitCorner /\ [][NextCorner]_vars

(***************************************************************************)
(* The window: Tk runs one handler at a time (busy), the buttons call      *)
(* on_solve, on_pause_resume and on_stop_reset, and root.after schedules   *)
(* _animate_step; no callback is ever cancelled.                           *)
(***************************************************************************)
\* the even maze sizes on_solve passes to generate_maze (lines 222-226)
Sizes == {n \in 2 .. MaxCells : n % 2 = 0 /\ n * n <= MaxCells}

\* _animate_step is entered (lines 272-291) with _running = run and
\* _paused = pau while sched callbacks are scheduled: it returns at once,
\* or reschedules itself when the speed setting gives no step this frame,
\* or starts the loop of line 292 with k steps
AnimateStep(run, pau, sched) ==
    IF ~run \/ gen_pc' = "none" \/ pau
    THEN /\ pending' = sched
         /\ frame' = 0
         /\ busy' = "idle"
    ELSE \E k \in 0 .. MaxSteps :
             IF k = 0
             THEN /\ pending' = sched + 1
                  /\ frame' = 0
                  /\ busy' = "idle"
             ELSE /\ pending' = sched
                  /\ frame' = k
                  /\ busy' = "frame"

\* on_solve, lines 219-229: ignored while running; otherwise generate_maze
\* is called and the canvas is redrawn without overlays
OnSolveClick ==
    /\ busy = "idle"
    /\ ~running
    /\ pending < MaxPending
    /\ \E n \in Sizes : rows' = n /\ cols' = n
    /\ phase' = "call"
    /\ grid' = <<>>
    /\ visited' = <<>>
    /\ stack' = <<>>
    /\ events' = <<>>
    /\ busy' = "solve"
    /\ UNCHANGED <<searchVars, gen_pc, final_state, running, path, paused,
                   pending, frame>>

\* on_solve, line 242: the direct call of _animate_step
SolveAnimate ==
    /\ busy = "solve"
    /\ phase = "search"
    /\ gen_pc = "created"
    /\ UNCHANGED <<mazeVars, phase, searchVars, gen_pc, events, final_state,
                   running, path, paused>>
    /\ AnimateStep(running, paused, pending)

\* on_pause_resume, lines 244-256: pause, or resume with a direct call of
\* _animate_step
OnPauseResume ==
    /\ busy = "idle"
    /\ running
    /\ UNCHANGED <<mazeVars, phase, searchVars, gen_pc, events, final_state,
                   running, path>>
    /\ IF ~paused
       THEN /\ paused' = TRUE
            /\ UNCHANGED <<pending, frame, busy>>
       ELSE /\ pending < MaxPending
            /\ paused' = FALSE
            /\ AnimateStep(running, FALSE, pending)

\* on_stop_reset, lines 258-270: the run is dropped and the overlays are
\* cleared; the scheduled callbacks stay scheduled
OnStopReset ==
    /\ busy = "idle"
    /\ running \/ paused \/ events # <<>>
    /\ IF running \/ paused
       THEN /\ running' = FALSE
            /\ paused' = FALSE
            /\ gen_pc' = "none"
       ELSE UNCHANGED <<running, paused, gen_pc>>
    /\ events' = <<>>
    /\ UNCHANGED <<mazeVars, phase, searchVars, final_state, path, pending,
                   frame, busy>>

\* a scheduled callback fires: _animate_step runs from the event loop
TimerFires ==
    /\ busy = "idle"
    /\ pending > 0
    /\ UNCHANGED <<mazeVars, phase, searchVars, gen_pc, events, final_state,
                   running, path, paused>>
    /\ AnimateStep(running, paused, pending - 1)

\* lines 292-299: one iteration of the loop of the frame
FramePull ==
    /\ busy = "frame"
    /\ frame > 0
    /\ Pull

\* line 314: the loop ended without StopIteration, the next frame is
\* scheduled
FrameEnd ==
    /\ busy = "frame"
    /\ frame = 0
    /\ pending' = pending + 1
    /\ busy' = "idle"
    /\ UNCHANGED <<mazeVars, phase, searchVars, gen_pc, events, final_state,
                   running, path, paused, frame>>

\* the window after __init__: no maze, no run, nothing scheduled
InitUI ==
    /\ rows = 0
    /\ cols = 0
    /\ phase = "window"
    /\ grid = <<>>
    /\ visited = <<>>
    /\ stack = <<>>
    /\ NoSearch

NextUI ==
    \/ OnSolveClick
    \/ GenerateEnter
    \/ Carve
    \/ Backtrack
    \/ ConstructCorners
    \/ SolveAnimate
    \/ OnPauseResume
    \/ OnStopReset
    \/ TimerFires
    \/ FramePull
    \/ FrameEnd

\* the window under any sequence of clicks and timer firings
SpecUI == InitUI /\ [][NextUI]_vars

(***************************************************************************)
(* The open-edge graph of the grid, computed from _neighbors alone.        *)
(***************************************************************************)
AllCells == Cells(rows, cols)

Nbrs(rc) == NeighborSet(grid, rows, cols, rc)

\* undirected open edges
OpenEdges == UNION {{{a, b} : b \in Nbrs(a)} : a \in AllCells}

\* breadth-first traversal from the cells of `frontier`
RECURSIVE Reach(_, _)
Reach(frontier, seen) ==
    LET nxt == (UNION {Nbrs(a) : a \in frontier}) \ seen
    IN  IF nxt = {} THEN seen ELSE Reach(nxt, seen \cup nxt)

\* breadth-first distance from the frontier (at distance d) to b; -1 when b
\* is unreachable
RECURSIVE BfsDist(_, _, _, _)
BfsDist(frontier, seen, d, b) ==
    IF b \in frontier THEN d
    ELSE LET nxt == (UNION {Nbrs(a) : a \in frontier}) \ seen
         IN  IF nxt = {} THEN -1 ELSE BfsDist(nxt, seen \cup nxt, d + 1, b)

Dist(a, b) == BfsDist({a}, {a}, 0, b)

\* what is left after removing, again and again, the cells with at most one
\* open edge into the remaining cells: empty exactly when there is no cycle
RECURSIVE Core(_)
Core(cells) ==
    LET leaves == {a \in cells : Cardinality(Nbrs(a) \cap cells) <= 1}
    IN  IF leaves = {} THEN cells ELSE Core(cells \ leaves)

CoordOf(i) == <<i \div cols, i % cols>>

\* generate_maze has returned
Generated == phase \in {"maze", "search"}

HasFinish == \E k \in 1 .. Len(events) : events[k].kind = "finish"

\* the search finished by popping the goal: the finish action follows the
\* current action of the goal (line 467)
Succeeded ==
    /\ HasFinish
    /\ Len(events) >= 2
    /\ events[Len(events)].kind = "finish"
    /\ events[Len(events) - 1].kind = "current"

\* the heap ran empty (line 521)
Failed == HasFinish /\ ~Succeeded

\* the path the driver would reconstruct from the finish payload
FinalPath ==
    _reconstruct_path_idx(final_state[1], final_state[3], final_state[2])

(***************************************************************************)
(* Properties.                                                             *)
(***************************************************************************)

\* C1: the grid generate_maze returns is a spanning tree of the lattice:
\* it has exactly rows*cols - 1 open edges, every cell is reachable from
\* (0,0) through open edges, and the open edges contain no cycle.
C1_SpanningTree ==
    Generated =>
        /\ Cardinality(OpenEdges) = rows * cols - 1
        /\ Reach({<<0, 0>>}, {<<0, 0>>}) = AllCells
        /\ Core(AllCells) = {}

\* a 3x3 maze with a junction has been returned
C1_Witness ==
    /\ phase = "maze"
    /\ rows = 3
    /\ cols = 3
    /\ \E a \in AllCells : Cardinality(Nbrs(a)) >= 3

\* C2: when the search finishes by reaching the goal of a generated maze,
\* g[end] equals the number of moves of the reconstructed path and the
\* breadth-first distance from start to end.
C2_CostCorrect ==
    Succeeded =>
        /\ FinalPath.status = "ok"
        /\ g[end_i] = Len(FinalPath.cells) - 1
        /\ g[end_i] = Dist(start, end)
        /\ (gen_pc = "returned" => path = FinalPath)

\* a search over a 3x3 maze has completed with a path of at least 5 moves
\* that is not the whole maze
C2_Witness ==
    /\ gen_pc = "returned"
    /\ Succeeded
    /\ rows = 3
    /\ cols = 3
    /\ Len(path.cells) >= 6
    /\ \E k \in DOMAIN closed : closed[k] = 1 /\ CoordOf(k) \notin SeqToSet(path.cells)

\* C3: on any grid, with in-bounds endpoints, a driver that keeps pulling
\* eventually receives a finish action.
C3_Terminates == (gen_pc = "created") ~> HasFinish

\* a search that ran out of open cells after three expansions has finished
C3_Witness ==
    /\ Failed
    /\ final_state[4] >= 3

OutOfBounds(rc) == rc \notin Cells(rows, cols)

\* C5 as stated: a search constructed with a start or end outside the grid
\* is rejected: no out-of-bounds endpoint is accepted, no cell is queued
\* and no action is emitted for it.
C5_RejectsOutOfBounds ==
    (phase = "search" /\ (OutOfBounds(start) \/ OutOfBounds(end))) =>
        /\ events = <<>>
        /\ open_heap = {}

\* C6 as stated: once a cell is closed, its g value and its predecessor
\* never change.
C6_ClosedFrozen ==
    [][\A k \in DOMAIN closed :
          closed[k] = 1 => g'[k] = g[k] /\ prev'[k] = prev[k]]_vars

\* C7: when the search succeeds, the reconstructed path begins at start,
\* ends at end, repeats no cell, and every two consecutive cells are
\* grid-adjacent and joined by an open edge.
C7_PathSimple ==
    Succeeded =>
        LET cs == FinalPath.cells
        IN  /\ FinalPath.status = "ok"
            /\ Len(cs) >= 1
            /\ cs[1] = start
            /\ cs[Len(cs)] = end
            /\ \A j, k \in 1 .. Len(cs) : j # k => cs[j] # cs[k]
            /\ \A k \in 1 .. Len(cs) - 1 :
                 /\ Abs(cs[k][1] - cs[k + 1][1])
                      + Abs(cs[k][2] - cs[k + 1][2]) = 1
                 /\ cs[k + 1] \in Nbrs(cs[k])
                 /\ cs[k] \in Nbrs(cs[k + 1])

\* a search has succeeded with a path that turns a corner
C7_Witness ==
    /\ Succeeded
    /\ Len(FinalPath.cells) >= 4
    /\ \E k \in 1 .. Len(FinalPath.cells) - 2 :
         /\ FinalPath.cells[k][1] # FinalPath.cells[k + 2][1]
         /\ FinalPath.cells[k][2] # FinalPath.cells[k + 2][2]

\* C9: at most one finish action is applied, it is the last action, and
\* once it is applied the only step left is the pull that finds the
\* generator exhausted, which changes neither the search state nor the
\* actions applied; a completed run has applied exactly one finish action
\* and is not stepped again.
FinishCount == Cardinality({k \in 1 .. Len(events) : events[k].kind = "finish"})

C9_FinishedTerminal ==
    /\ [](/\ FinishCount <= 1
          /\ (HasFinish => events[Len(events)].kind = "finish")
          /\ (gen_pc = "returned" => FinishCount = 1 /\ ~running))
    /\ [][HasFinish =>
            /\ gen_pc # "returned"
            /\ gen_pc' = "returned"
            /\ ~running'
            /\ events' = events
            /\ final_state' = final_state
            /\ UNCHANGED searchVars]_vars

\* a run that did not reach the goal has completed
C9_Witness ==
    /\ gen_pc = "returned"
    /\ Failed
    /\ Len(events) >= 8

\* C10: when start = end the actions applied are open_add [start],
\* current start, finish, in this order; no cell is closed, expansions is
\* 0, and the reconstructed path is the single cell start.
C10_StartIsEnd ==
    (phase = "search" /\ start = end) =>
        LET si == idx(start[1], start[2])
            want == <<Event("open_add", <<si>>), Event("current", si),
                      Event("finish", <<prev, cols, si, 0>>)>>
        IN  /\ Len(events) <= 3
            /\ \A k \in 1 .. Len(events) : events[k] = want[k]
            /\ \A k \in DOMAIN closed : closed[k] = 0
            /\ expansions = 0
            /\ (gen_pc = "returned" =>
                  /\ Len(events) = 3
                  /\ path = [status |-> "ok", cells |-> <<start>>])

\* a search from a cell to itself, away from the origin, has completed
C10_Witness ==
    /\ gen_pc = "returned"
    /\ start = end
    /\ start # <<0, 0>>
    /\ rows >= 2
    /\ cols >= 2

\* the payloads of the applied actions of the given kinds, in order
PayloadsOf(kinds) ==
    LET ks == {k \in 1 .. Len(events) : events[k].kind \in kinds}
        RECURSIVE Collect(_)
        Collect(k) ==
            IF k > Len(events) THEN <<>>
            ELSE IF k \in ks THEN <<events[k].payload>> \o Collect(k + 1)
            ELSE Collect(k + 1)
    IN  Collect(1)

NoRepeat(s) == \A j, k \in 1 .. Len(s) : j # k => s[j] # s[k]

ClosedCount == Cardinality({k \in DOMAIN closed : closed[k] = 1})

\* C11: the expansions total of the finish action equals the number of
\* closed cells, no cell is closed or announced by a current action twice,
\* the goal is not counted; so a corner-to-corner search of a generated
\* maze reports at most rows*cols - 1 expansions, at most 3 on a 2x2 grid
\* and at most 16 on a 4x4 grid.
C11_ExpansionsBound ==
    /\ NoRepeat(PayloadsOf({"current"}))
    /\ NoRepeat(PayloadsOf({"closed_add", "branch"}))
    /\ HasFinish =>
         /\ final_state[4] = ClosedCount
         /\ final_state[4] = Len(PayloadsOf({"closed_add", "branch"}))
         /\ closed[end_i] = 0
         /\ final_state[4] <= rows * cols - 1
         /\ (rows = 2 /\ cols = 2 => final_state[4] <= 3)
         /\ (rows = 4 /\ cols = 4 => final_state[4] <= 16)

\* a corner-to-corner search of a 4x4 maze has finished after at least 10
\* expansions, leaving a cell unexpanded
C11_Witness ==
    /\ HasFinish
    /\ rows = 4
    /\ cols = 4
    /\ final_state[4] >= 10
    /\ final_state[4] < rows * cols - 1

\* a grid of one row or one column
Corridor == rows = 1 \/ cols = 1

\* C12: on a 1xN or Nx1 grid generate_maze yields a single corridor where
\* no cell has 3 or more open edges, and the corner-to-corner search
\* applies no branch action: it applies closed_add for the cells of the
\* corridor in order from start towards end, one per expansion, and
\* finishes at the goal.
C12_CorridorLine ==
    (Corridor /\ Generated) =>
        /\ \A i \in 0 .. total - 1 : Exits(i) <= 2
        /\ OpenEdges = {{CoordOf(i), CoordOf(i + 1)} : i \in 0 .. total - 2}
        /\ PayloadsOf({"branch"}) = <<>>
        /\ LET line == PayloadsOf({"closed_add"})
           IN  /\ \A k \in 1 .. Len(line) : line[k] = <<k - 1>>
               /\ Len(line) = expansions
               /\ HasFinish =>
                    /\ Succeeded
                    /\ Len(line) = total - 1
                    /\ final_state[4] = total - 1
                    /\ events[Len(events) - 1].payload = end_i

\* a vertical corridor of at least 4 cells has been searched to its end
C12_Witness ==
    /\ cols = 1
    /\ rows >= 4
    /\ HasFinish
    /\ Len(PayloadsOf({"closed_add"})) = rows - 1

\* C13: on every generated maze, for every pair of cells a and b, h_idx(a, b)
\* is at most the shortest open-edge distance between a and b, and for
\* every open edge (a, a2) and every goal, h(a, goal) <= 1 + h(a2, goal).
\* The maze is fixed once returned: it is examined when returned and when
\* the search has queued its start cell with priority h(start, end).
C13_HeuristicAdmissible ==
    (Generated /\ Len(events) <= 1) =>
        /\ \A a, b \in 0 .. total - 1 :
               h_idx(a, b) <= Dist(CoordOf(a), CoordOf(b))
        /\ \A a, goal \in 0 .. total - 1 :
               \A n \in Nbrs(CoordOf(a)) :
                   h_idx(a, goal) <= 1 + h_idx(idx(n[1], n[2]), goal)

\* a search has queued its start cell on a maze where the heuristic is
\* exact for one pair of distant cells and strictly below the distance for
\* another, and the queued priority is a positive heuristic value
C13_Witness ==
    /\ phase = "search"
    /\ Len(events) = 1
    /\ \E a, b \in 0 .. total - 1 :
           /\ h_idx(a, b) >= 2
           /\ h_idx(a, b) = Dist(CoordOf(a), CoordOf(b))
    /\ \E a, b \in 0 .. total - 1 :
           h_idx(a, b) + 2 <= Dist(CoordOf(a), CoordOf(b))
    /\ \E e \in open_heap : e[1] = g[e[3]] + h_idx(e[3], end_i) /\ e[1] > g[e[3]]

BadDims == rows <= 0 \/ cols <= 0

\* C14: generate_maze called with rows <= 0 or cols <= 0 fails with
\* ValueError before any grid, visited table or stack is created, and
\* returns no maze; with rows > 0 and cols > 0 it never raises.
C14_InvalidDimensions ==
    /\ [](/\ BadDims => /\ phase \in {"call", "ValueError"}
                        /\ grid = <<>>
                        /\ visited = <<>>
                        /\ stack = <<>>
          /\ ~BadDims => phase # "ValueError")
    /\ [][phase = "call" /\ BadDims => phase' = "ValueError"]_vars

\* the call with positive rows and negative cols has raised
C14_Witness ==
    /\ phase = "ValueError"
    /\ rows > 0
    /\ cols < 0

\* the cells listed by the open_add actions before position k
OpenedBefore(k) ==
    UNION {SeqToSet(events[j].payload) :
               j \in {j \in 1 .. k - 1 : events[j].kind = "open_add"}}

\* the open neighbours of cell c that no open_add before position k listed
NewlyOpened(k, c) ==
    {idx(n[1], n[2]) : n \in Nbrs(CoordOf(c))} \ OpenedBefore(k)

Finalization == {"closed_add", "branch"}

\* position k >= 2 of the applied actions follows the shape of one
\* iteration of the loop
ShapeAt(k) ==
    LET e == events[k]
        p == events[k - 1]
    IN  CASE e.kind = "current" ->
                 /\ k = 2 \/ p.kind \in Finalization
                 /\ e.payload \in OpenedBefore(k)
          [] e.kind = "open_add" ->
                 /\ p.kind = "current"
                 /\ p.payload # end_i
                 /\ e.payload # <<>>
                 /\ NoRepeat(e.payload)
                 /\ SeqToSet(e.payload) = NewlyOpened(k, p.payload)
          [] e.kind \in Finalization ->
                 /\ k >= 3
                 /\ \/ p.kind = "current" /\ NewlyOpened(k, p.payload) = {}
                    \/ p.kind = "open_add" /\ events[k - 2].kind = "current"
                 /\ LET c == IF p.kind = "current" THEN p.payload
                             ELSE events[k - 2].payload
                    IN  /\ c # end_i
                        /\ e.payload = <<c>>
                        /\ e.kind = "branch"
                             <=> Cardinality(Nbrs(CoordOf(c))) >= 3
          [] e.kind = "finish" ->
                 \/ p.kind = "current" /\ p.payload = end_i
                 \/ p.kind \in Finalization

\* C15: the applied actions have a fixed shape: first open_add [start];
\* then for every expanded non-goal cell c, current c, at most one
\* open_add batch (present exactly when c newly opened a neighbour, and
\* listing exactly those), then one finalization of c, branch [c] if c has
\* 3 or more open edges and closed_add [c] otherwise; the goal gets
\* current followed directly by finish.
C15_EventShape ==
    /\ events # <<>> => events[1] = Event("open_add", <<idx(start[1], start[2])>>)
    /\ \A k \in 2 .. Len(events) : ShapeAt(k)
    /\ \A k \in 1 .. Len(events) - 1 :
           (events[k].kind = "current" /\ events[k].payload = end_i)
               => events[k + 1].kind = "finish"
    /\ HasFinish =>
         Len(PayloadsOf({"current"}))
             = Len(PayloadsOf(Finalization)) + (IF Succeeded THEN 1 ELSE 0)

\* a finished run in which a junction was finalized after an open_add batch
\* and a cell was finalized directly after its current action
C15_Witness ==
    /\ Succeeded
    /\ \E k \in 3 .. Len(events) :
           events[k].kind = "branch" /\ events[k - 1].kind = "open_add"
    /\ \E k \in 3 .. Len(events) :
           events[k].kind = "closed_add" /\ events[k - 1].kind = "current"

\* the step applies a current action
AppliesCurrent ==
    /\ Len(events') = Len(events) + 1
    /\ events'[Len(events')].kind = "current"

\* C16: every cell chosen for expansion comes from the queue entry with the
\* smallest estimated total cost among all entries then in the queue, and
\* among entries of equal cost from the one inserted earliest; insertion
\* counters are strictly increasing and never shared by two entries, so
\* the cell index never breaks a tie.
C16_PopOrder ==
    /\ [](/\ \A x, y \in open_heap : x[2] = y[2] => x = y
          /\ \A x \in open_heap : x[2] <= counter)
    /\ [][/\ \A x \in open_heap' \ open_heap :
                 /\ x[2] <= counter'
                 /\ IF gen_pc = "created" THEN x[2] = 0 ELSE x[2] > counter
          /\ \A x, y \in open_heap' \ open_heap : x[2] = y[2] => x = y
          /\ AppliesCurrent =>
               \E e \in open_heap :
                   /\ e[3] = events'[Len(events')].payload
                   /\ open_heap' = open_heap \ {e}
                   /\ \A x \in open_heap :
                          \/ e[1] < x[1]
                          \/ e[1] = x[1] /\ e[2] <= x[2]]_vars

\* the queue holds two entries of equal cost where the one inserted
\* earlier has the larger cell index, and the earlier one has been popped
C16_Witness ==
    /\ gen_pc = "y_current"
    /\ \E x \in open_heap :
           \E k \in 1 .. Len(events) - 1 :
               /\ events[k].kind = "open_add"
               /\ \E a, b \in 1 .. Len(events[k].payload) :
                      /\ a < b
                      /\ events[k].payload[a] = cur
                      /\ events[k].payload[b] = x[3]
                      /\ x[3] < cur
                      /\ x[1] = g[cur] + h_idx(cur, end_i)

\* C17: when relaxation finds a strictly better cost for a neighbour that
\* is already in the open set, a new queue entry is still pushed for that
\* neighbour (the outdated entry being skipped later, once the cell is
\* closed).
C17_RepushOnImprove ==
    [][\A w \in DOMAIN g :
           (/\ g[w] < INF
            /\ in_open[w] = 1
            /\ closed'[w] = 0
            /\ g'[w] < g[w])
               => \E x \in open_heap' \ open_heap :
                      /\ x[3] = w
                      /\ x[1] = g'[w] + h_idx(w, end_i)]_vars

\* the cell next to rc in direction d
Toward(rc, d) == <<rc[1] + DIRS(d)[1], rc[2] + DIRS(d)[2]>>

\* the grid exists: carving is under way or the grid has been returned
Carved == phase \in {"carving", "maze", "search"}

\* C18: at every step of carving and in the returned grid the wall masks
\* are symmetric and bounded: between two adjacent cells the wall bit of
\* one is clear exactly when the opposite bit of the other is clear, a wall
\* on the outer border is never cleared, and a wall is cleared only between
\* the stack's top cell and a previously unvisited adjacent cell.
C18_WallsSymmetric ==
    /\ [](Carved =>
            \A rc \in AllCells :
                /\ grid[rc] \in 0 .. FullMask
                /\ \A d \in {N, S, E, W} :
                       IF Toward(rc, d) \in AllCells
                       THEN HasBit(grid[rc], d)
                                <=> HasBit(grid[Toward(rc, d)], OPPOSITE(d))
                       ELSE HasBit(grid[rc], d))
    /\ [][(phase = "carving" /\ grid' # grid) =>
            \E d \in {N, S, E, W} :
                LET top == stack[Len(stack)]
                    nb == Toward(top, d)
                IN  /\ nb \in AllCells
                    /\ ~visited[nb]
                    /\ visited'[nb]
                    /\ HasBit(grid[top], d)
                    /\ grid' = [grid EXCEPT
                                   ![top] = grid[top] - d,
                                   ![nb] = grid[nb] - OPPOSITE(d)]]_vars

\* carving is under way after a backtrack: the stack's top cell has an open
\* wall towards a cell that is no longer on the stack, and walls towards
\* visited neighbours and the border standing
C18_Witness ==
    /\ phase = "carving"
    /\ stack # <<>>
    /\ LET top == stack[Len(stack)]
       IN  /\ \E d \in {N, S, E, W} :
                  /\ Toward(top, d) \in AllCells
                  /\ ~HasBit(grid[top], d)
                  /\ Toward(top, d) \notin SeqToSet(stack)
           /\ \E d \in {N, S, E, W} :
                  /\ Toward(top, d) \in AllCells
                  /\ visited[Toward(top, d)]
                  /\ HasBit(grid[top], d)

\* C19: for rows > 0 and cols > 0 the carving loop terminates under every
\* sequence of random choices, and when the stack is empty every cell has
\* been marked visited; each cell is pushed onto the stack exactly once and
\* popped exactly once: the stack changes only by the push of a cell that
\* was unvisited and is marked visited with the push, or by the pop of its
\* top; no cell is on the stack twice, visited marks are never taken back,
\* and at the end every cell is visited and none is on the stack.
C19_CarvingTerminates ==
    /\ (phase = "carving") ~> (phase = "maze")
    /\ [](Carved =>
            /\ NoRepeat(stack)
            /\ \A k \in 1 .. Len(stack) : visited[stack[k]]
            /\ phase = "carving" => stack # <<>> /\ stack[1] = <<0, 0>>)
    /\ [](Generated =>
            /\ stack = <<>>
            /\ \A rc \in AllCells : visited[rc])
    /\ [][phase = "carving" =>
            /\ \A rc \in AllCells : visited[rc] => visited'[rc]
            /\ \/ /\ stack' = stack
                  /\ visited' = visited
               \/ /\ stack' = SubSeq(stack, 1, Len(stack) - 1)
                  /\ visited' = visited
               \/ \E rc \in AllCells :
                      /\ ~visited[rc]
                      /\ stack' = Append(stack, rc)
                      /\ visited' = [visited EXCEPT ![rc] = TRUE]]_vars

\* a maze of at least 6 cells in 2 or more rows and columns has been
\* returned: the loop has ended with the stack empty
C19_Witness ==
    /\ phase = "maze"
    /\ rows >= 2
    /\ cols >= 2
    /\ rows * cols >= 6
    /\ stack = <<>>

\* C20: under any interleaving of Solve, Pause/Resume and Stop/Reset clicks
\* with timer firings, at most one _animate_step callback is scheduled at
\* any time.
C20_SingleTimer == pending <= 1

\* the generator has run its first lines: the tables of the search exist
SearchStarted == phase = "search" /\ gen_pc \notin {"none", "created", "raised"}

\* the link prev[n] = p is a tree edge: p is closed, n and p are joined by
\* an open edge, and g[n] = g[p] + 1
TreeLink(n) ==
    LET p == prev[n]
    IN  /\ p \in DOMAIN prev
        /\ closed[p] = 1
        /\ CoordOf(n) \in Nbrs(CoordOf(p))
        /\ g[n] = g[p] + 1

\* the predecessor chain from every cell is finite and repeats no cell:
\* _reconstruct_path_idx returns for every end cell
ChainsEnd ==
    \A e \in DOMAIN prev :
        LET w == _reconstruct_path_idx(prev, e, cols)
        IN  w.status = "ok" /\ NoRepeat(w.cells)

\* C21: in every reachable state of a search the predecessor table is a
\* forest rooted at start: prev[start] is the none sentinel, and for every
\* cell n with prev[n] = p, p is closed, n and p are joined by an open edge
\* and g[n] = g[p] + 1; so every predecessor chain is finite and free of
\* cycles and _reconstruct_path_idx terminates for any end cell.
C21_PredecessorForest ==
    SearchStarted =>
        /\ prev[start_i] = NONE
        /\ \A n \in DOMAIN prev : prev[n] # NONE => TreeLink(n)
        /\ ChainsEnd

====
